---- MODULE Spec2Model ----
(***************************************************************************)
(* MediGuard AI: the deterministic drug-interaction checker                *)
(* (services/drugDatabase.ts), the result of analyzePatient                *)
(* (services/geminiService.ts) and the session held by the App component   *)
(* (handleIntakeSubmit with its merge/escalation step, handleApprovePlan,  *)
(* handleRejectPlan, handleRestart) together with the ClinicalDashboard     *)
(* component it renders in the review step (plan editing, chat, handout).  *)
(*                                                                         *)
(* Strings are TLA+ strings; Len, \o and SubSeq act on them character by   *)
(* character, so lower-casing and substring search are computed as the     *)
(* JavaScript runtime computes them.                                       *)
(***************************************************************************)
EXTENDS Integers, Sequences, FiniteSets, TLC

VARIABLES
  step,         \* App: AppStep
  isLoading,    \* App: analysis request in flight
  error,        \* App: error banner (NULL_STRING or a message)
  patientData,  \* App: PatientData or NULL
  analysis,     \* App: ClinicalAnalysis or NULL
  finalPlan,    \* App: TreatmentRecommendation or NULL
  auditLogs,    \* App: sequence of AuditLogEntry
  call,         \* locals of the last handleIntakeSubmit continuation:
                \*   the response, result (as returned by analyzePatient)
                \*   and dbWarnings
  dash,         \* ClinicalDashboard: its component state while mounted,
                \*   and its requests in flight
  lastHandler,  \* the App handler that ran last
  requests,     \* calls issued to the model service in this session
  chk           \* one invocation of checkDatabaseInteractions on its own

vars == <<step, isLoading, error, patientData, analysis, finalPlan,
          auditLogs, call, dash, lastHandler, requests, chk>>

appVars == <<step, isLoading, error, patientData, analysis, finalPlan,
             auditLogs, call, dash, lastHandler, requests>>

\* null in a slot that otherwise holds an object, resp. a string
NULL == [null |-> TRUE]
NULL_STRING == "<null>"

-----------------------------------------------------------------------------
(* Bounds                                                                  *)

MaxMeds == 2          \* longest current-medication list of a session
MaxCheckMeds == 2     \* longest medication list given to the checker alone
MaxAiWarnings == 1    \* most warnings in one AI response
MaxAttempts == 2      \* most intake submissions within one session
MaxSends == 2         \* most chat messages sent within one review
MaxHandoutCalls == 2  \* most handout requests in flight at once

-----------------------------------------------------------------------------
(* String primitives of the JavaScript runtime                             *)

UpperLetters == "ABCDEFGHIJKLMNOPQRSTUVWXYZ"
LowerLetters == "abcdefghijklmnopqrstuvwxyz"

\* one character of String.prototype.toLowerCase
LowerChar(c) ==
  IF \E i \in 1..Len(UpperLetters) : SubSeq(UpperLetters, i, i) = c
    THEN LET i == CHOOSE j \in 1..Len(UpperLetters) :
                    SubSeq(UpperLetters, j, j) = c
         IN  SubSeq(LowerLetters, i, i)
    ELSE c

\* the characters of s from position i on, each in lower case
RECURSIVE LowerFrom(_, _)
LowerFrom(s, i) ==
  IF i > Len(s) THEN ""
  ELSE LowerChar(SubSeq(s, i, i)) \o LowerFrom(s, i + 1)

\* variant: the name is compared as typed
toLowerCase_asTyped(s) == s

toLowerCase(s) == LowerFrom(s, 1)

\* String.prototype.trim, for the blanks a text input can hold
RECURSIVE trimStart(_)
trimStart(s) ==
  IF Len(s) = 0 THEN ""
  ELSE IF SubSeq(s, 1, 1) = " " THEN trimStart(SubSeq(s, 2, Len(s)))
  ELSE s

RECURSIVE trimEnd(_)
trimEnd(s) ==
  IF Len(s) = 0 THEN ""
  ELSE IF SubSeq(s, Len(s), Len(s)) = " "
         THEN trimEnd(SubSeq(s, 1, Len(s) - 1))
  ELSE s

trim(s) == trimEnd(trimStart(s))

\* String.prototype.includes: d occurs in s as a contiguous substring
includes(s, d) ==
  \E i \in 1..(Len(s) - Len(d) + 1) : SubSeq(s, i, i + Len(d) - 1) = d

\* variant: the second argument wins (the floor is assigned outright)
Max_floorOnly(a, b) == b

\* Math.max on integers
Max(a, b) == IF a >= b THEN a ELSE b

-----------------------------------------------------------------------------
(* services/drugDatabase.ts                                                *)

INTERACTION_DATABASE == <<
  [drugs |-> <<"sildenafil", "nitroglycerin">>, severity |-> "High",
   description |-> "CRITICAL: Concomitant use of PDE5 inhibitors (Sildenafil) and Nitrates can cause life-threatening hypotension."],
  [drugs |-> <<"tadalafil", "nitroglycerin">>, severity |-> "High",
   description |-> "CRITICAL: Concomitant use of PDE5 inhibitors (Tadalafil) and Nitrates can cause life-threatening hypotension."],
  [drugs |-> <<"lisinopril", "potassium">>, severity |-> "Moderate",
   description |-> "Risk of Hyperkalemia: ACE inhibitors can increase potassium levels."],
  [drugs |-> <<"warfarin", "aspirin">>, severity |-> "High",
   description |-> "Increased risk of bleeding due to additive anticoagulant effects."],
  [drugs |-> <<"metformin", "contrast dye">>, severity |-> "Moderate",
   description |-> "Risk of lactic acidosis. Metformin should be withheld before imaging procedures with contrast."]
>>

RuleIds == 1..Len(INTERACTION_DATABASE)

\* rule.drugs.some(d => normalizedCurrent.includes(d))
hasDrugA(rule, normalizedCurrent) ==
  \E k \in 1..Len(rule.drugs) : includes(normalizedCurrent, rule.drugs[k])

\* rule.drugs.some(d => normalizedProposed.includes(d))
hasDrugB(rule, normalizedProposed) ==
  \E k \in 1..Len(rule.drugs) : includes(normalizedProposed, rule.drugs[k])

\* variant: the current medication must hold the rule's first token and
\* the proposed medication its second
RuleFires_ordered(rule, normalizedCurrent, normalizedProposed) ==
  /\ includes(normalizedCurrent, rule.drugs[1])
  /\ includes(normalizedProposed, rule.drugs[2])

\* the condition of the if statement guarding warnings.push
RuleFires(rule, normalizedCurrent, normalizedProposed) ==
  hasDrugA(rule, normalizedCurrent) /\ hasDrugB(rule, normalizedProposed)

\* variant: the rule's description is pushed as it stands in the table
DbWarning_plain(rule) ==
  [severity    |-> rule.severity,
   description |-> rule.description,
   source      |-> "DRUG_DB"]

\* the object pushed for a firing rule
DbWarning(rule) ==
  [severity    |-> rule.severity,
   description |-> "[DATABASE FLAG] " \o rule.description,
   source      |-> "DRUG_DB"]

\* variant: a warning already in the list is not pushed again
RECURSIVE RuleLoop_dedup(_, _, _, _)
RuleLoop_dedup(warnings, normalizedCurrent, normalizedProposed, r) ==
  IF r > Len(INTERACTION_DATABASE) THEN warnings
  ELSE LET rule == INTERACTION_DATABASE[r]
           w == [severity |-> rule.severity,
                 description |-> "[DATABASE FLAG] " \o rule.description,
                 source |-> "DRUG_DB"]
           seen == \E k \in 1..Len(warnings) : warnings[k] = w
           next == IF /\ \E a \in 1..2 : includes(normalizedCurrent, rule.drugs[a])
                      /\ \E b \in 1..2 : includes(normalizedProposed, rule.drugs[b])
                      /\ ~seen
                     THEN Append(warnings, w)
                     ELSE warnings
       IN  RuleLoop_dedup(next, normalizedCurrent, normalizedProposed, r + 1)

\* inner loop: for (const rule of INTERACTION_DATABASE), from rule r on
RECURSIVE RuleLoop(_, _, _, _)
RuleLoop(warnings, normalizedCurrent, normalizedProposed, r) ==
  IF r > Len(INTERACTION_DATABASE) THEN warnings
  ELSE LET rule == INTERACTION_DATABASE[r]
           next == IF RuleFires(rule, normalizedCurrent, normalizedProposed)
                     THEN Append(warnings, DbWarning(rule))
                     ELSE warnings
       IN  RuleLoop(next, normalizedCurrent, normalizedProposed, r + 1)

\* variant: the loop stops after the medication it starts with
MedLoop_firstOnly(warnings, currentMeds, normalizedProposed, m) ==
  IF m > Len(currentMeds) THEN warnings
  ELSE RuleLoop(warnings, toLowerCase(currentMeds[m].name),
                normalizedProposed, 1)

\* outer loop: for (const med of currentMeds), from medication m on
RECURSIVE MedLoop(_, _, _, _)
MedLoop(warnings, currentMeds, normalizedProposed, m) ==
  IF m > Len(currentMeds) THEN warnings
  ELSE LET normalizedCurrent == toLowerCase(currentMeds[m].name)
       IN  MedLoop(RuleLoop(warnings, normalizedCurrent, normalizedProposed, 1),
                   currentMeds, normalizedProposed, m + 1)

checkDatabaseInteractions(currentMeds, proposedMedName) ==
  MedLoop(<< >>, currentMeds, toLowerCase(proposedMedName), 1)

-----------------------------------------------------------------------------
(* Inputs of a session: what the intake form can submit                    *)

Med(n, d, f) == [name |-> n, dosage |-> d, frequency |-> f]

\* medications the clinician adds in the form: addMedication requires a
\* non-empty name and dosage
FormMeds == { Med("Nitroglycerin", "0.4mg", "PRN for chest pain"),
              Med("LISINOPRIL 20mg", "20mg", "Daily") }

RECURSIVE SeqsUpTo(_, _)
SeqsUpTo(S, n) ==
  IF n = 0 THEN { << >> }
  ELSE LET shorter == SeqsUpTo(S, n - 1)
       IN  shorter \cup { Append(q, x) : q \in shorter, x \in S }

SAMPLE_PATIENT ==
  [id |-> "12345", age |-> 58, gender |-> "Male", weightKg |-> 95,
   heightCm |-> 178, bmi |-> 30, systolicBp |-> 155, diastolicBp |-> 95,
   heartRate |-> 78, smokingStatus |-> "Former",
   alcoholConsumption |-> "Occasional", exerciseFrequency |-> "Sedentary",
   allergies |-> <<"Penicillin">>,
   conditions |-> <<"Hypertension", "Type 2 Diabetes", "Angina">>,
   currentMedications |->
     << Med("Lisinopril", "20mg", "Daily"),
        Med("Metformin", "500mg", "Twice daily"),
        Med("Nitroglycerin", "0.4mg", "PRN for chest pain") >>,
   primaryComplaint |-> "Erectile Dysfunction",
   notes |-> "Patient reports symptoms worsening over the last 6 months. Requesting Viagra."]

EMPTY_PATIENT ==
  [id |-> "1730000000000", age |-> 0, gender |-> "Male", weightKg |-> 0,
   heightCm |-> 0, systolicBp |-> 120, diastolicBp |-> 80,
   heartRate |-> 70, smokingStatus |-> "Never",
   alcoholConsumption |-> "None", exerciseFrequency |-> "Light",
   allergies |-> << >>, conditions |-> << >>,
   currentMedications |-> << >>, primaryComplaint |-> "", notes |-> ""]

\* loadSample: the sample record with a fresh id
LoadedSample == [SAMPLE_PATIENT EXCEPT !.id = EMPTY_PATIENT.id]

\* the form contents the submit button can send
FormData ==
  { LoadedSample }
  \cup { [EMPTY_PATIENT EXCEPT !.currentMedications = ms,
                               !.primaryComplaint = "Chest pain"] :
           ms \in SeqsUpTo(FormMeds, MaxMeds) }

-----------------------------------------------------------------------------
(* Responses of the model service                                          *)

RiskLevel == {"Low", "Medium", "High"}
Severity == {"High", "Moderate", "Low"}
RiskScores == {0, 40, 90, 95, 100}

ProposedMeds == {"Sildenafil", "Potassium Chloride", "Ibuprofen", ""}

\* warnings as the model writes them: the generation schema has no source
\* field, the validation schema accepts one
RawWarnings ==
  { [severity |-> "High", description |-> "Hypotension risk with nitrates."],
    [severity |-> "Low", description |-> "Monitor blood pressure.",
     source |-> "DRUG_DB"] }

Plan(m, d, t, r, c) ==
  [medication |-> m, dosage |-> d, duration |-> t, rationale |-> r,
   confidenceScore |-> c]

Alternative == Plan("Tadalafil", "10mg", "As needed", "Longer half-life.", 70)

\* well-formed response bodies
GoodBodies ==
  { [riskLevel |-> l, riskScore |-> s, summary |-> "Clinical summary.",
     warnings |-> ws, contraindications |-> <<"Nitrate therapy">>,
     treatmentPlan |-> Plan(m, "50mg", "30 days", "First-line therapy.", 85),
     alternatives |-> alts,
     lifestyleRecommendations |-> <<"Reduce sodium intake">>] :
       l \in RiskLevel, s \in RiskScores, m \in ProposedMeds,
       ws \in SeqsUpTo(RawWarnings, MaxAiWarnings),
       alts \in { << >>, <<Alternative>> } }

GoodBody == CHOOSE b \in GoodBodies :
              b.riskLevel = "Medium" /\ b.riskScore = 40
              /\ b.treatmentPlan.medication = "Sildenafil"
              /\ b.warnings = << >> /\ b.alternatives = << >>

\* bodies the validation schema rejects
BadBodies ==
  { [GoodBody EXCEPT !.riskScore = 101],
    [GoodBody EXCEPT !.riskScore = -1],
    [GoodBody EXCEPT !.riskLevel = "Critical"],
    [GoodBody EXCEPT !.treatmentPlan.confidenceScore = 150],
    [GoodBody EXCEPT !.warnings = <<[severity |-> "Severe",
                                     description |-> "x"]>>],
    [f \in DOMAIN GoodBody \ {"treatmentPlan"} |-> GoodBody[f]] }

\* what generateContent can do: throw, or answer with a text
Responses ==
  { [kind |-> "transport_error"], [kind |-> "empty"], [kind |-> "not_json"] }
  \cup { [kind |-> "json", body |-> b] : b \in GoodBodies \cup BadBodies }

-----------------------------------------------------------------------------
(* services/geminiService.ts                                               *)

InteractionWarningSchema(w) ==
  /\ {"severity", "description"} \subseteq DOMAIN w
  /\ w.severity \in Severity
  /\ "source" \in DOMAIN w => w.source \in {"AI_MODEL", "DRUG_DB"}

\* variant: confidenceScore is any number
TreatmentRecommendationSchema_anyScore(p) ==
  {"medication", "dosage", "duration", "rationale", "confidenceScore"}
    \subseteq DOMAIN p

TreatmentRecommendationSchema(p) ==
  /\ {"medication", "dosage", "duration", "rationale", "confidenceScore"}
       \subseteq DOMAIN p
  /\ p.confidenceScore >= 0 /\ p.confidenceScore <= 100

\* variant: riskLevel is any string
ClinicalAnalysisValidationSchema_anyLevel(b) ==
  /\ {"riskLevel", "riskScore", "summary", "warnings", "contraindications",
      "treatmentPlan", "alternatives", "lifestyleRecommendations"}
       \subseteq DOMAIN b
  /\ b.riskScore >= 0 /\ b.riskScore <= 100
  /\ \A i \in 1..Len(b.warnings) : InteractionWarningSchema(b.warnings[i])
  /\ TreatmentRecommendationSchema(b.treatmentPlan)
  /\ \A i \in 1..Len(b.alternatives) :
       TreatmentRecommendationSchema(b.alternatives[i])

ClinicalAnalysisValidationSchema(b) ==
  /\ {"riskLevel", "riskScore", "summary", "warnings", "contraindications",
      "treatmentPlan", "alternatives", "lifestyleRecommendations"}
       \subseteq DOMAIN b
  /\ b.riskLevel \in RiskLevel
  /\ b.riskScore >= 0 /\ b.riskScore <= 100
  /\ \A i \in 1..Len(b.warnings) : InteractionWarningSchema(b.warnings[i])
  /\ TreatmentRecommendationSchema(b.treatmentPlan)
  /\ \A i \in 1..Len(b.alternatives) :
       TreatmentRecommendationSchema(b.alternatives[i])

\* parsed.warnings.map(w => ({ ...w, source: 'AI_MODEL' }))
TagWarning(w) ==
  [severity |-> w.severity, description |-> w.description,
   source |-> "AI_MODEL"]

\* analyzePatient: does the call throw for this response?
analyzePatientThrows(resp) ==
  \/ resp.kind = "transport_error"
  \/ resp.kind = "empty"
  \/ resp.kind = "not_json"
  \/ resp.kind = "json" /\ ~ClinicalAnalysisValidationSchema(resp.body)

\* analyzePatient: the value it returns when it does not throw
analyzePatient(resp) ==
  [resp.body EXCEPT
     !.warnings = [i \in 1..Len(resp.body.warnings) |->
                     TagWarning(resp.body.warnings[i])]]

-----------------------------------------------------------------------------
(* App component                                                           *)

\* values Math.random().toString(36).substr(2, 9) and new Date() can take;
\* both are opaque to the session logic
RandomIds == {"k3j9x0q2m"}
Clock == {"2024-01-01T00:00:00Z"}

\* variant: the new entry is put in front of the list
addLog_prepended(prev, id, now, action, details) ==
  <<[id |-> id, timestamp |-> now, action |-> action,
     user |-> "Dr. Admin", details |-> details]>> \o prev

\* addLog: setAuditLogs(prev => [...prev, entry])
addLog(prev, id, now, action, details) ==
  Append(prev, [id |-> id, timestamp |-> now, action |-> action,
                user |-> "Dr. Admin", details |-> details])

CountAction(log, a) ==
  Cardinality({ i \in 1..Len(log) : log[i].action = a })

\* variant: any DB warning counts as critical
SomeHigh_any(dbWarnings) == Len(dbWarnings) > 0

\* dbWarnings.some(w => w.severity === 'High')
SomeHigh(dbWarnings) ==
  \E i \in 1..Len(dbWarnings) : dbWarnings[i].severity = "High"

\* variant: the DB warnings are appended after the AI's warnings
MergeDbWarnings_appended(result, dbWarnings) ==
  IF Len(dbWarnings) > 0
    THEN LET merged == [result EXCEPT !.warnings = result.warnings \o dbWarnings]
         IN  IF \E i \in 1..Len(dbWarnings) : dbWarnings[i].severity = "High"
               THEN [merged EXCEPT !.riskLevel = "High",
                                   !.riskScore = IF result.riskScore >= 90
                                                   THEN result.riskScore
                                                   ELSE 90]
               ELSE merged
    ELSE result

\* variant: no length guard, and every() in place of some(), which holds
\* of the empty list
MergeDbWarnings_unguarded(result, dbWarnings) ==
  LET merged == [result EXCEPT !.warnings = dbWarnings \o result.warnings]
  IN  IF \A i \in 1..Len(dbWarnings) : dbWarnings[i].severity = "High"
        THEN [merged EXCEPT !.riskLevel = "High",
                            !.riskScore = IF result.riskScore >= 90
                                            THEN result.riskScore
                                            ELSE 90]
        ELSE merged

\* step 3 of handleIntakeSubmit: merge the DB warnings into the AI result
MergeDbWarnings(result, dbWarnings) ==
  IF Len(dbWarnings) > 0
    THEN LET merged == [result EXCEPT !.warnings = dbWarnings \o result.warnings]
         IN  IF SomeHigh(dbWarnings)
               THEN [merged EXCEPT !.riskLevel = "High",
                                   !.riskScore = Max(result.riskScore, 90)]
               ELSE merged
    ELSE result

NoCall == [pc |-> "idle"]
NoCheck == [pc |-> "idle"]

\* ClinicalDashboard is not rendered
NoDash == [mounted |-> FALSE]

Greeting ==
  [role |-> "model",
   text |-> "I've reviewed the patient's file. I'm ready to answer any questions."]

\* ClinicalDashboard after its first render and the effect that opens the
\* chat session; chatPending and handoutPending count its requests in
\* flight, planAtEdit keeps the plan with which edit mode was entered last
MountDashboard(a) ==
  [mounted |-> TRUE,
   showChat |-> FALSE, showHandout |-> FALSE, handoutContent |-> "",
   isGeneratingHandout |-> FALSE, isEditing |-> FALSE,
   editablePlan |-> a.treatmentPlan, planAtEdit |-> a.treatmentPlan,
   messages |-> <<Greeting>>, inputMsg |-> "", isChatLoading |-> FALSE,
   chatPending |-> 0, handoutPending |-> 0]

Init ==
  /\ step = "intake"
  /\ isLoading = FALSE
  /\ error = NULL_STRING
  /\ patientData = NULL
  /\ analysis = NULL
  /\ finalPlan = NULL
  /\ auditLogs = << >>
  /\ call = NoCall
  /\ dash = NoDash
  /\ lastHandler = "none"
  /\ requests = 0
  /\ chk = NoCheck

\* variant: the error of the previous attempt is not cleared
HandleIntakeSubmit_keepsError(data, id, now) ==
  /\ step = "intake"
  /\ ~isLoading
  /\ data.primaryComplaint # ""
  /\ CountAction(auditLogs, "INTAKE_SUBMITTED") < MaxAttempts
  /\ isLoading' = TRUE
  /\ patientData' = data
  /\ auditLogs' = addLog(auditLogs, id, now, "INTAKE_SUBMITTED",
                         "Patient " \o data.id \o " intake completed.")
  /\ call' = [pc |-> "awaiting", data |-> data]
  /\ requests' = requests + 1
  /\ lastHandler' = "handleIntakeSubmit"
  /\ UNCHANGED <<step, error, analysis, finalPlan, dash, chk>>

\* handleIntakeSubmit up to the await; the submit button is rendered in the
\* intake step and disabled while isLoading or without a primary complaint
HandleIntakeSubmit(data, id, now) ==
  /\ step = "intake"
  /\ ~isLoading
  /\ data.primaryComplaint # ""
  /\ CountAction(auditLogs, "INTAKE_SUBMITTED") < MaxAttempts
  /\ isLoading' = TRUE
  /\ error' = NULL_STRING
  /\ patientData' = data
  /\ auditLogs' = addLog(auditLogs, id, now, "INTAKE_SUBMITTED",
                         "Patient " \o data.id \o " intake completed.")
  /\ call' = [pc |-> "awaiting", data |-> data]
  /\ requests' = requests + 1
  /\ lastHandler' = "handleIntakeSubmit"
  /\ UNCHANGED <<step, analysis, finalPlan, dash, chk>>

\* handleIntakeSubmit after the await, analyzePatient returned
AnalysisReturned(resp, id, now) ==
  /\ call.pc = "awaiting"
  /\ ~analyzePatientThrows(resp)
  /\ LET data == call.data
         result == analyzePatient(resp)
         dbWarnings == checkDatabaseInteractions(data.currentMedications,
                                                 result.treatmentPlan.medication)
     IN  /\ auditLogs' = addLog(auditLogs, id, now, "ANALYSIS_GENERATED",
                                "Gemini generated plan for "
                                  \o data.primaryComplaint
                                  \o ". Risk: " \o result.riskLevel)
         /\ analysis' = MergeDbWarnings(result, dbWarnings)
         /\ call' = [pc |-> "returned", data |-> data, resp |-> resp,
                     result |-> result, dbWarnings |-> dbWarnings]
  /\ step' = "review"
  /\ isLoading' = FALSE
  /\ dash' = MountDashboard(analysis')
  /\ lastHandler' = "analysisReturned"
  /\ UNCHANGED <<error, patientData, finalPlan, requests, chk>>

\* variant: the step is advanced although the call threw
AnalysisThrew_advances(resp) ==
  /\ call.pc = "awaiting"
  /\ analyzePatientThrows(resp)
  /\ error' = "Analysis failed. Please try again."
  /\ isLoading' = FALSE
  /\ step' = "review"
  /\ call' = [pc |-> "threw", data |-> call.data, resp |-> resp]
  /\ lastHandler' = "analysisThrew"
  /\ UNCHANGED <<patientData, analysis, finalPlan, auditLogs, dash,
                 requests, chk>>

\* variant: the catch block swallows the failure
AnalysisThrew_silent(resp) ==
  /\ call.pc = "awaiting"
  /\ analyzePatientThrows(resp)
  /\ isLoading' = FALSE
  /\ call' = [pc |-> "threw", data |-> call.data, resp |-> resp]
  /\ lastHandler' = "analysisThrew"
  /\ UNCHANGED <<step, error, patientData, analysis, finalPlan, auditLogs,
                 dash, requests, chk>>

\* variant: the finally block is missing
AnalysisThrew_noFinally(resp) ==
  /\ call.pc = "awaiting"
  /\ analyzePatientThrows(resp)
  /\ error' = "Analysis failed. Please try again."
  /\ call' = [pc |-> "threw", data |-> call.data, resp |-> resp]
  /\ lastHandler' = "analysisThrew"
  /\ UNCHANGED <<step, isLoading, patientData, analysis, finalPlan,
                 auditLogs, dash, requests, chk>>

\* variant: the catch block calls the model service once more
AnalysisThrew_retries(resp) ==
  /\ call.pc = "awaiting"
  /\ analyzePatientThrows(resp)
  /\ requests < MaxAttempts + 1
  /\ requests' = requests + 1
  /\ lastHandler' = "analysisThrew"
  /\ UNCHANGED <<step, isLoading, error, patientData, analysis, finalPlan,
                 auditLogs, call, dash, chk>>

\* handleIntakeSubmit after the await, analyzePatient threw
AnalysisThrew(resp) ==
  /\ call.pc = "awaiting"
  /\ analyzePatientThrows(resp)
  /\ error' = "Analysis failed. Please try again."
  /\ isLoading' = FALSE
  /\ call' = [pc |-> "threw", data |-> call.data, resp |-> resp]
  /\ lastHandler' = "analysisThrew"
  /\ UNCHANGED <<step, patientData, analysis, finalPlan, auditLogs, dash,
                 requests, chk>>

\* plans the dashboard can hand to onApprove: the primary plan, an
\* alternative copied into its place, or the primary plan with an edited
\* field
EditedMedications == {"Tadalafil 5mg"}
EditedDosages == {"25mg"}
EditedDurations == {"14 days"}
EditedRationales == {"Per clinician."}

EditablePlans(a) ==
  LET p == a.treatmentPlan
  IN  {p}
      \cup { a.alternatives[i] : i \in 1..Len(a.alternatives) }
      \cup { [p EXCEPT !.medication = m] : m \in EditedMedications }
      \cup { [p EXCEPT !.dosage = d] : d \in EditedDosages }
      \cup { [p EXCEPT !.duration = t] : t \in EditedDurations }
      \cup { [p EXCEPT !.rationale = r] : r \in EditedRationales }

\* variant: the duration is not compared
PlanChanges_noDuration(original, plan) ==
  (IF plan.medication # original.medication
     THEN <<"Medication: " \o original.medication \o " -> " \o plan.medication>>
     ELSE << >>)
  \o (IF plan.dosage # original.dosage
        THEN <<"Dosage: " \o original.dosage \o " -> " \o plan.dosage>>
        ELSE << >>)

\* the list of changes handleApprovePlan collects
PlanChanges(original, plan) ==
  (IF plan.medication # original.medication
     THEN <<"Medication: " \o original.medication \o " -> " \o plan.medication>>
     ELSE << >>)
  \o (IF plan.dosage # original.dosage
        THEN <<"Dosage: " \o original.dosage \o " -> " \o plan.dosage>>
        ELSE << >>)
  \o (IF plan.duration # original.duration
        THEN <<"Duration: " \o original.duration \o " -> " \o plan.duration>>
        ELSE << >>)

\* Array.prototype.join(', ')
RECURSIVE Join(_)
Join(xs) ==
  IF Len(xs) = 0 THEN ""
  ELSE IF Len(xs) = 1 THEN xs[1]
  ELSE xs[1] \o ", " \o Join(Tail(xs))

HandleApprovePlan(plan, id, now) ==
  /\ step = "review"
  /\ patientData # NULL
  /\ analysis # NULL
  /\ LET changes == PlanChanges(analysis.treatmentPlan, plan)
     IN  auditLogs' =
           IF Len(changes) > 0
             THEN addLog(auditLogs, id, now, "PLAN_MODIFIED",
                         "Doctor modified: " \o Join(changes))
             ELSE addLog(auditLogs, id, now, "PLAN_APPROVED",
                         "Plan accepted without modification.")
  /\ finalPlan' = plan
  /\ step' = "summary"
  /\ dash' = NoDash
  /\ lastHandler' = "handleApprovePlan"
  /\ UNCHANGED <<isLoading, error, patientData, analysis, call, requests, chk>>

\* variant: the log is left as it is
ClearLog_kept(prev) == prev

\* setAuditLogs([]) applied to the log
ClearLog(prev) == << >>

\* variant: the patient record is not reset
HandleRestart_keepsPatient ==
  /\ step = "summary"
  /\ patientData # NULL
  /\ finalPlan # NULL
  /\ step' = "intake"
  /\ analysis' = NULL
  /\ finalPlan' = NULL
  /\ auditLogs' = ClearLog(auditLogs)
  /\ call' = NoCall
  /\ requests' = 0
  /\ lastHandler' = "handleRestart"
  /\ UNCHANGED <<isLoading, error, patientData, dash, chk>>

\* handleRestart: the state updates it queues
HandleRestart ==
  /\ step = "summary"
  /\ patientData # NULL
  /\ finalPlan # NULL
  /\ step' = "intake"
  /\ patientData' = NULL
  /\ analysis' = NULL
  /\ finalPlan' = NULL
  /\ auditLogs' = ClearLog(auditLogs)
  /\ call' = NoCall
  /\ requests' = 0
  /\ lastHandler' = "handleRestart"
  /\ UNCHANGED <<isLoading, error, dash, chk>>

\* variant: the reset leaves the log, with the entry just appended
HandleRejectPlan_keepsLog(id, now) ==
  /\ step = "review"
  /\ patientData # NULL
  /\ analysis # NULL
  /\ auditLogs' = addLog(auditLogs, id, now, "PLAN_REJECTED",
                         "Plan for " \o patientData.primaryComplaint
                           \o " rejected by clinician.")
  /\ step' = "intake"
  /\ patientData' = NULL
  /\ analysis' = NULL
  /\ finalPlan' = NULL
  /\ call' = NoCall
  /\ requests' = 0
  /\ dash' = NoDash
  /\ lastHandler' = "handleRejectPlan"
  /\ UNCHANGED <<isLoading, error, chk>>

\* handleRejectPlan: addLog queues an append, handleRestart then queues
\* setAuditLogs([]); React applies the queue in order within one batch
HandleRejectPlan(id, now) ==
  /\ step = "review"
  /\ patientData # NULL
  /\ analysis # NULL
  /\ LET logged == addLog(auditLogs, id, now, "PLAN_REJECTED",
                          "Plan for "
                            \o (IF patientData.primaryComplaint # ""
                                  THEN patientData.primaryComplaint
                                  ELSE "unknown")
                            \o " rejected by clinician.")
         cleared == ClearLog(logged)
     IN  auditLogs' = cleared
  /\ step' = "intake"
  /\ patientData' = NULL
  /\ analysis' = NULL
  /\ finalPlan' = NULL
  /\ call' = NoCall
  /\ requests' = 0
  /\ dash' = NoDash
  /\ lastHandler' = "handleRejectPlan"
  /\ UNCHANGED <<isLoading, error, chk>>

\* the plans onApprove can be called with, the dashboard being rendered only
\* with an analysis; Spec takes the steps of the plan editor together with
\* the approval, SpecReview below takes them one by one
ApprovablePlans == IF analysis = NULL THEN {} ELSE EditablePlans(analysis)

Next ==
  \/ \E data \in FormData, id \in RandomIds, now \in Clock :
       HandleIntakeSubmit(data, id, now)
  \/ \E resp \in Responses, id \in RandomIds, now \in Clock :
       AnalysisReturned(resp, id, now)
  \/ \E resp \in Responses : AnalysisThrew(resp)
  \/ \E plan \in ApprovablePlans, id \in RandomIds, now \in Clock :
       HandleApprovePlan(plan, id, now)
  \/ \E id \in RandomIds, now \in Clock : HandleRejectPlan(id, now)
  \/ HandleRestart

Spec == Init /\ [][Next]_vars

-----------------------------------------------------------------------------
(* ClinicalDashboard component                                             *)

\* a handler of the dashboard: it sets state of the dashboard only
DashboardSets(d) ==
  /\ step = "review"
  /\ dash # NoDash
  /\ dash' = d
  /\ UNCHANGED <<step, isLoading, error, patientData, analysis, finalPlan,
                 auditLogs, call, lastHandler, requests, chk>>

\* click on an alternative: setEditablePlan(alt)
SelectAlternative(i) ==
  /\ analysis # NULL
  /\ i \in 1..Len(analysis.alternatives)
  /\ DashboardSets([dash EXCEPT !.editablePlan = analysis.alternatives[i]])

\* variant: the input writes into the plan object of the analysis as well
SetMedication_inPlace(v) ==
  /\ step = "review"
  /\ dash # NoDash /\ dash.isEditing
  /\ analysis # NULL
  /\ dash' = [dash EXCEPT !.editablePlan.medication = v]
  /\ analysis' = [analysis EXCEPT !.treatmentPlan.medication = v]
  /\ UNCHANGED <<step, isLoading, error, patientData, finalPlan,
                 auditLogs, call, lastHandler, requests, chk>>

\* the four inputs of the edit form, rendered while isEditing
SetMedication(v) ==
  /\ dash # NoDash /\ dash.isEditing
  /\ DashboardSets([dash EXCEPT !.editablePlan.medication = v])

SetDosage(v) ==
  /\ dash # NoDash /\ dash.isEditing
  /\ DashboardSets([dash EXCEPT !.editablePlan.dosage = v])

SetDuration(v) ==
  /\ dash # NoDash /\ dash.isEditing
  /\ DashboardSets([dash EXCEPT !.editablePlan.duration = v])

SetRationale(v) ==
  /\ dash # NoDash /\ dash.isEditing
  /\ DashboardSets([dash EXCEPT !.editablePlan.rationale = v])

\* "Modify Plan" / "Done Editing": setIsEditing(!isEditing)
ToggleEditing ==
  /\ dash # NoDash
  /\ DashboardSets([dash EXCEPT
       !.isEditing = ~dash.isEditing,
       !.planAtEdit = IF dash.isEditing THEN dash.planAtEdit
                                        ELSE dash.editablePlan])

\* "Cancel" of the edit form: setIsEditing(false)
CancelEditing ==
  /\ dash # NoDash /\ dash.isEditing
  /\ DashboardSets([dash EXCEPT !.isEditing = FALSE])

\* "Save Changes" of the edit form: setIsEditing(false)
SaveChanges ==
  /\ dash # NoDash /\ dash.isEditing
  /\ DashboardSets([dash EXCEPT !.isEditing = FALSE])

\* "Approve": onApprove(editablePlan)
OnApprove(id, now) ==
  /\ dash # NoDash
  /\ HandleApprovePlan(dash.editablePlan, id, now)

\* "Ask MediGuard" / "Close Assistant": setShowChat(!showChat)
ToggleChat ==
  /\ dash # NoDash
  /\ DashboardSets([dash EXCEPT !.showChat = ~dash.showChat])

\* the close button of the chat drawer: setShowChat(false)
CloseChat ==
  /\ dash # NoDash /\ dash.showChat
  /\ DashboardSets([dash EXCEPT !.showChat = FALSE])

\* what the clinician types into the chat input
ChatInputs == {"Is this dose safe?", "  "}

\* the chat input, rendered while showChat: setInputMsg(e.target.value)
SetInputMsg(v) ==
  /\ dash # NoDash /\ dash.showChat
  /\ DashboardSets([dash EXCEPT !.inputMsg = v])

\* messages of the clinician in the list
UserMessages(messages) ==
  Cardinality({ i \in 1..Len(messages) : messages[i].role = "user" })

\* handleSendMessage, up to the await; it is bound to the send button
\* (disabled while isChatLoading) and to the Enter key of the input (not
\* disabled); with a blank input it returns at once
HandleSendMessage ==
  /\ dash # NoDash /\ dash.showChat
  /\ trim(dash.inputMsg) # ""
  /\ UserMessages(dash.messages) < MaxSends
  /\ DashboardSets([dash EXCEPT
       !.inputMsg = "",
       !.messages = Append(dash.messages,
                           [role |-> "user", text |-> dash.inputMsg]),
       !.isChatLoading = TRUE,
       !.chatPending = dash.chatPending + 1])

\* texts chatSession.sendMessage can answer with
ReplyTexts == {"It is within the usual range.", ""}

\* handleSendMessage after the await, success: response.text || "Error."
ChatReplied(text) ==
  /\ dash # NoDash /\ dash.chatPending > 0
  /\ DashboardSets([dash EXCEPT
       !.messages = Append(dash.messages,
                           [role |-> "model",
                            text |-> IF text = "" THEN "Error." ELSE text]),
       !.isChatLoading = FALSE,
       !.chatPending = dash.chatPending - 1])

\* handleSendMessage after the await, catch and finally
ChatFailed ==
  /\ dash # NoDash /\ dash.chatPending > 0
  /\ DashboardSets([dash EXCEPT
       !.messages = Append(dash.messages,
                           [role |-> "model",
                            text |-> "Error communicating with MediGuard AI."]),
       !.isChatLoading = FALSE,
       !.chatPending = dash.chatPending - 1])

\* handleGenerateHandout, up to the await
HandleGenerateHandout ==
  /\ dash # NoDash
  /\ IF dash.handoutContent = ""
       THEN /\ dash.handoutPending < MaxHandoutCalls
            /\ DashboardSets([dash EXCEPT
                 !.showHandout = TRUE,
                 !.isGeneratingHandout = TRUE,
                 !.handoutPending = dash.handoutPending + 1])
       ELSE DashboardSets([dash EXCEPT !.showHandout = TRUE])

\* texts generateContent can answer a handout request with
HandoutTexts == {"Take one tablet as directed.", ""}

\* generatePatientHandout: response.text || "Error generating handout."
generatePatientHandout(text) ==
  IF text = "" THEN "Error generating handout." ELSE text

\* handleGenerateHandout after the await, success
HandoutGenerated(text) ==
  /\ dash # NoDash /\ dash.handoutPending > 0
  /\ DashboardSets([dash EXCEPT
       !.handoutContent = generatePatientHandout(text),
       !.isGeneratingHandout = FALSE,
       !.handoutPending = dash.handoutPending - 1])

\* variant: the finally block is missing
HandoutFailed_noFinally ==
  /\ dash # NoDash /\ dash.handoutPending > 0
  /\ DashboardSets([dash EXCEPT
       !.handoutContent = "Failed to generate handout. Please try again.",
       !.handoutPending = dash.handoutPending - 1])

\* handleGenerateHandout after the await, catch and finally
HandoutFailed ==
  /\ dash # NoDash /\ dash.handoutPending > 0
  /\ DashboardSets([dash EXCEPT
       !.handoutContent = "Failed to generate handout. Please try again.",
       !.isGeneratingHandout = FALSE,
       !.handoutPending = dash.handoutPending - 1])

\* the close buttons of the handout modal: setShowHandout(false)
CloseHandout ==
  /\ dash # NoDash /\ dash.showHandout
  /\ DashboardSets([dash EXCEPT !.showHandout = FALSE])

-----------------------------------------------------------------------------
(* A session with the plan editor of the dashboard: one patient, responses *)
(* that differ in their scores                                             *)

ConfidenceScores == {0, 85, 100}

ReviewFormData == { LoadedSample }

ReviewBodies ==
  { [b EXCEPT !.treatmentPlan.confidenceScore = c] :
      b \in { g \in GoodBodies : /\ g.riskLevel = "Medium"
                                 /\ g.warnings = << >>
                                 /\ g.treatmentPlan.medication
                                      \in {"Sildenafil", "Ibuprofen"} },
      c \in ConfidenceScores }

ReviewResponses ==
  { [kind |-> "transport_error"], [kind |-> "empty"], [kind |-> "not_json"] }
  \cup { [kind |-> "json", body |-> b] : b \in ReviewBodies \cup BadBodies }

\* indices of the alternatives on screen
AlternativeIds ==
  IF analysis = NULL THEN {} ELSE 1..Len(analysis.alternatives)

NextReview ==
  \/ \E data \in ReviewFormData, id \in RandomIds, now \in Clock :
       HandleIntakeSubmit(data, id, now)
  \/ \E resp \in ReviewResponses, id \in RandomIds, now \in Clock :
       AnalysisReturned(resp, id, now)
  \/ \E resp \in ReviewResponses : AnalysisThrew(resp)
  \/ \E i \in AlternativeIds : SelectAlternative(i)
  \/ \E v \in EditedMedications : SetMedication(v)
  \/ \E v \in EditedDosages : SetDosage(v)
  \/ \E v \in EditedDurations : SetDuration(v)
  \/ \E v \in EditedRationales : SetRationale(v)
  \/ ToggleEditing
  \/ CancelEditing
  \/ SaveChanges
  \/ \E id \in RandomIds, now \in Clock : OnApprove(id, now)
  \/ \E id \in RandomIds, now \in Clock : HandleRejectPlan(id, now)
  \/ HandleRestart

SpecReview == Init /\ [][NextReview]_vars

-----------------------------------------------------------------------------
(* A session with the assistant of the dashboard: chat and handout         *)

AssistResponses ==
  { [kind |-> "transport_error"],
    [kind |-> "json", body |-> GoodBody],
    [kind |-> "json",
     body |-> [GoodBody EXCEPT !.alternatives = <<Alternative>>]] }

NextAssist ==
  \/ \E data \in ReviewFormData, id \in RandomIds, now \in Clock :
       HandleIntakeSubmit(data, id, now)
  \/ \E resp \in AssistResponses, id \in RandomIds, now \in Clock :
       AnalysisReturned(resp, id, now)
  \/ \E resp \in AssistResponses : AnalysisThrew(resp)
  \/ \E i \in AlternativeIds : SelectAlternative(i)
  \/ ToggleChat
  \/ CloseChat
  \/ \E v \in ChatInputs : SetInputMsg(v)
  \/ HandleSendMessage
  \/ \E text \in ReplyTexts : ChatReplied(text)
  \/ ChatFailed
  \/ HandleGenerateHandout
  \/ \E text \in HandoutTexts : HandoutGenerated(text)
  \/ HandoutFailed
  \/ CloseHandout
  \/ \E id \in RandomIds, now \in Clock : OnApprove(id, now)
  \/ \E id \in RandomIds, now \in Clock : HandleRejectPlan(id, now)
  \/ HandleRestart

SpecAssist == Init /\ [][NextAssist]_vars

-----------------------------------------------------------------------------
(* A session in which the clinician uses one part of the dashboard during  *)
(* a review, the plan editor or the assistant, and leaves the other as it  *)
(* was mounted                                                             *)

EditorUntouched ==
  /\ dash # NoDash
  /\ analysis # NULL
  /\ ~dash.isEditing
  /\ dash.editablePlan = analysis.treatmentPlan

AssistantUntouched ==
  /\ dash # NoDash
  /\ analysis # NULL
  /\ dash = [MountDashboard(analysis) EXCEPT
               !.isEditing = dash.isEditing,
               !.editablePlan = dash.editablePlan,
               !.planAtEdit = dash.planAtEdit]

NextDashboard ==
  \/ \E data \in ReviewFormData, id \in RandomIds, now \in Clock :
       HandleIntakeSubmit(data, id, now)
  \/ \E resp \in AssistResponses, id \in RandomIds, now \in Clock :
       AnalysisReturned(resp, id, now)
  \/ \E resp \in AssistResponses : AnalysisThrew(resp)
  \/ AssistantUntouched /\ \E i \in AlternativeIds : SelectAlternative(i)
  \/ AssistantUntouched /\ \E v \in EditedMedications : SetMedication(v)
  \/ AssistantUntouched /\ \E v \in EditedDosages : SetDosage(v)
  \/ AssistantUntouched /\ \E v \in EditedDurations : SetDuration(v)
  \/ AssistantUntouched /\ \E v \in EditedRationales : SetRationale(v)
  \/ AssistantUntouched /\ ToggleEditing
  \/ AssistantUntouched /\ CancelEditing
  \/ AssistantUntouched /\ SaveChanges
  \/ EditorUntouched /\ ToggleChat
  \/ EditorUntouched /\ CloseChat
  \/ EditorUntouched /\ \E v \in ChatInputs : SetInputMsg(v)
  \/ EditorUntouched /\ HandleSendMessage
  \/ EditorUntouched /\ \E text \in ReplyTexts : ChatReplied(text)
  \/ EditorUntouched /\ ChatFailed
  \/ EditorUntouched /\ HandleGenerateHandout
  \/ EditorUntouched /\ \E text \in HandoutTexts : HandoutGenerated(text)
  \/ EditorUntouched /\ HandoutFailed
  \/ EditorUntouched /\ CloseHandout
  \/ \E id \in RandomIds, now \in Clock : OnApprove(id, now)
  \/ \E id \in RandomIds, now \in Clock : HandleRejectPlan(id, now)
  \/ HandleRestart

SpecDashboard == Init /\ [][NextDashboard]_vars

-----------------------------------------------------------------------------
(* A session whose model calls all come to an end: analyzePatient awaits   *)
(* one generateContent call, which returns or throws                       *)

ModelCallResolves ==
  \/ \E resp \in ReviewResponses : AnalysisThrew(resp)
  \/ \E resp \in ReviewResponses, id \in RandomIds, now \in Clock :
       AnalysisReturned(resp, id, now)

NextProgress ==
  \/ \E data \in ReviewFormData, id \in RandomIds, now \in Clock :
       HandleIntakeSubmit(data, id, now)
  \/ \E resp \in ReviewResponses, id \in RandomIds, now \in Clock :
       AnalysisReturned(resp, id, now)
  \/ \E resp \in ReviewResponses : AnalysisThrew(resp)
  \/ \E id \in RandomIds, now \in Clock : OnApprove(id, now)
  \/ \E id \in RandomIds, now \in Clock : HandleRejectPlan(id, now)
  \/ HandleRestart

SpecProgress ==
  Init /\ [][NextProgress]_vars /\ WF_vars(ModelCallResolves)

-----------------------------------------------------------------------------
(* checkDatabaseInteractions called on its own                             *)

CheckMedNames ==
  {"", "Nitroglycerin", "NITROGLYCERIN 0.4mg", "nitroglycerin",
   "Sildenafil", "SILDENAFIL citrate", "Sildenafil/Tadalafil",
   "Nitroglycerin-Sildenafil",
   "Warfarin", "Lisinopril", "Metformin", "Ibuprofen"}

CheckProposedNames ==
  {"", "sildenafil", "Sildenafil", "SILDENAFIL",
   "nitroglycerin", "Nitroglycerin", "NITROGLYCERIN",
   "Aspirin/Sildenafil", "Tadalafil 5mg", "Potassium Chloride",
   "Contrast Dye", "Ibuprofen"}

CheckMeds == { Med(n, "10mg", "Daily") : n \in CheckMedNames }

InitCheck ==
  /\ step = "intake"
  /\ isLoading = FALSE
  /\ error = NULL_STRING
  /\ patientData = NULL
  /\ analysis = NULL
  /\ finalPlan = NULL
  /\ auditLogs = << >>
  /\ call = NoCall
  /\ dash = NoDash
  /\ lastHandler = "none"
  /\ requests = 0
  /\ chk \in { [pc |-> "ready", currentMeds |-> ms, proposedMedName |-> p] :
                 ms \in SeqsUpTo(CheckMeds, MaxCheckMeds),
                 p \in CheckProposedNames }

CallCheckDatabaseInteractions ==
  /\ chk.pc = "ready"
  /\ chk' = [pc |-> "done", currentMeds |-> chk.currentMeds,
             proposedMedName |-> chk.proposedMedName,
             warnings |-> checkDatabaseInteractions(chk.currentMeds,
                                                    chk.proposedMedName)]
  /\ UNCHANGED appVars

NextCheck == CallCheckDatabaseInteractions

SpecCheck == InitCheck /\ [][NextCheck]_vars

-----------------------------------------------------------------------------
(* Properties of the merge/escalation step                                 *)

\* the list holds a High-severity entry
HasHighEntry(ws) == \E i \in 1..Len(ws) : ws[i].severity = "High"

\* the larger of a score and the floor 90, written out
FlooredAt90(s) == IF s >= 90 THEN s ELSE 90

\* C1: when the DB warnings hold a High-severity entry, the analysis handed
\* to review has riskLevel High and riskScore max(s, 90), s the AI's score;
\* the score is never below the AI's score.
C1_EscalationFloor ==
  (call.pc = "returned" /\ HasHighEntry(call.dbWarnings))
    => /\ analysis.riskLevel = "High"
       /\ analysis.riskScore = FlooredAt90(call.result.riskScore)
       /\ analysis.riskScore >= call.result.riskScore
       /\ analysis.riskScore >= 90

\* a Low/95 AI result escalated by a High DB warning keeps its score 95
C1_Witness ==
  /\ step = "review"
  /\ call.pc = "returned"
  /\ HasHighEntry(call.dbWarnings)
  /\ call.result.riskLevel = "Low"
  /\ call.result.riskScore = 95
  /\ analysis.riskLevel = "High"
  /\ analysis.riskScore = 95

\* the lower-case form of every name the model uses, written out
LowerCaseTable ==
  { <<"", "">>,
    <<"Nitroglycerin", "nitroglycerin">>,
    <<"NITROGLYCERIN", "nitroglycerin">>,
    <<"nitroglycerin", "nitroglycerin">>,
    <<"NITROGLYCERIN 0.4mg", "nitroglycerin 0.4mg">>,
    <<"Nitroglycerin-Sildenafil", "nitroglycerin-sildenafil">>,
    <<"Sildenafil", "sildenafil">>,
    <<"SILDENAFIL", "sildenafil">>,
    <<"sildenafil", "sildenafil">>,
    <<"SILDENAFIL citrate", "sildenafil citrate">>,
    <<"Sildenafil/Tadalafil", "sildenafil/tadalafil">>,
    <<"Aspirin/Sildenafil", "aspirin/sildenafil">>,
    <<"Tadalafil", "tadalafil">>,
    <<"Tadalafil 5mg", "tadalafil 5mg">>,
    <<"Potassium Chloride", "potassium chloride">>,
    <<"Contrast Dye", "contrast dye">>,
    <<"Warfarin", "warfarin">>,
    <<"Lisinopril", "lisinopril">>,
    <<"LISINOPRIL 20mg", "lisinopril 20mg">>,
    <<"Metformin", "metformin">>,
    <<"Ibuprofen", "ibuprofen">> }

LowerCaseOf(name) == (CHOOSE p \in LowerCaseTable : p[1] = name)[2]

\* rule fires for a pair of lower-cased names in the sense of the
\* specification: one name holds one token, the other name the other token
OneTokenEach(rule, normalizedCurrent, normalizedProposed) ==
  \/ /\ includes(normalizedCurrent, rule.drugs[1])
     /\ includes(normalizedProposed, rule.drugs[2])
  \/ /\ includes(normalizedCurrent, rule.drugs[2])
     /\ includes(normalizedProposed, rule.drugs[1])

\* the proposed primary medication and a current medication of the patient
\* fire a High-severity rule
KnownCriticalInteraction ==
  \E m \in 1..Len(patientData.currentMedications), r \in RuleIds :
    /\ INTERACTION_DATABASE[r].severity = "High"
    /\ OneTokenEach(INTERACTION_DATABASE[r],
                    LowerCaseOf(patientData.currentMedications[m].name),
                    LowerCaseOf(analysis.treatmentPlan.medication))

\* C2: in review, a known critical interaction between the proposed primary
\* medication and a current medication is always presented as High risk
\* with score at least 90, whatever the AI concluded.
C2_CriticalNeverBelowHigh ==
  (step = "review" /\ KnownCriticalInteraction)
    => (analysis.riskLevel = "High" /\ analysis.riskScore >= 90)

\* the AI rated a nitrate/PDE5 combination Low with score 0
C2_Witness ==
  /\ step = "review"
  /\ KnownCriticalInteraction
  /\ call.result.riskLevel = "Low"
  /\ call.result.riskScore = 0
  /\ analysis.riskLevel = "High"

\* C3: non-empty DB warnings without a High entry leave riskLevel and
\* riskScore as the AI supplied them; the only change is the prepended
\* DB warnings.
C3_NoEscalationBelowHigh ==
  (call.pc = "returned" /\ Len(call.dbWarnings) > 0
     /\ ~HasHighEntry(call.dbWarnings))
    => /\ analysis.riskLevel = call.result.riskLevel
       /\ analysis.riskScore = call.result.riskScore
       /\ DOMAIN analysis = DOMAIN call.result
       /\ \A f \in DOMAIN analysis \ {"warnings"} :
            analysis[f] = call.result[f]
       /\ SubSeq(analysis.warnings, 1, Len(call.dbWarnings)) = call.dbWarnings
       /\ SubSeq(analysis.warnings, Len(call.dbWarnings) + 1,
                 Len(analysis.warnings)) = call.result.warnings

\* a Moderate-only finding (lisinopril + potassium) on a Low/40 AI result
C3_Witness ==
  /\ step = "review"
  /\ call.pc = "returned"
  /\ Len(call.dbWarnings) > 0
  /\ \A i \in 1..Len(call.dbWarnings) : call.dbWarnings[i].severity = "Moderate"
  /\ call.result.riskLevel = "Low"
  /\ call.result.riskScore = 40
  /\ analysis.riskLevel = "Low"

AnalysisFields ==
  {"riskLevel", "riskScore", "summary", "warnings", "contraindications",
   "treatmentPlan", "alternatives", "lifestyleRecommendations"}

\* C5: with no DB warning, the analysis handed to review equals the
\* analysis returned by analyzePatient in every field.
C5_PassThrough ==
  (call.pc = "returned" /\ Len(call.dbWarnings) = 0)
    => /\ DOMAIN analysis = AnalysisFields
       /\ \A f \in AnalysisFields : analysis[f] = call.result[f]

\* an analysis with warnings and an alternative passes through
C5_Witness ==
  /\ step = "review"
  /\ call.pc = "returned"
  /\ Len(call.dbWarnings) = 0
  /\ Len(call.data.currentMedications) > 0
  /\ Len(call.result.warnings) > 0
  /\ Len(call.result.alternatives) > 0
  /\ analysis.riskLevel = "Medium"

-----------------------------------------------------------------------------
(* Properties of checkDatabaseInteractions                                 *)

\* lower-cased name of the m-th medication given to the checker
ChkCurrent(m) == LowerCaseOf(chk.currentMeds[m].name)
ChkProposed == LowerCaseOf(chk.proposedMedName)

\* C6: rule r fires for medication m exactly when the lower-cased name of m
\* holds one token of r and the lower-cased proposed name holds the other
\* token; seen in the result as one warning of rule r per such medication.
C6_FiresIffOneTokenEach ==
  chk.pc = "done"
    => \A r \in RuleIds :
         Cardinality({ k \in 1..Len(chk.warnings) :
                         chk.warnings[k] = DbWarning(INTERACTION_DATABASE[r]) })
           = Cardinality({ m \in 1..Len(chk.currentMeds) :
                             OneTokenEach(INTERACTION_DATABASE[r],
                                          ChkCurrent(m), ChkProposed) })

\* the (medication, rule) pairs for which the checker's condition holds
FiringPairs ==
  { p \in (1..Len(chk.currentMeds)) \X RuleIds :
      RuleFires(INTERACTION_DATABASE[p[2]], ChkCurrent(p[1]), ChkProposed) }

\* position of a pair among the firing pairs, by medication then rule
Rank(p) ==
  1 + Cardinality({ q \in FiringPairs :
                      q[1] < p[1] \/ (q[1] = p[1] /\ q[2] < p[2]) })

\* C7 as amended: every emitted warning has source DRUG_DB, the severity of
\* the rule that fired, and as description the rule's description behind
\* the prefix "[DATABASE FLAG] ".
C7_WarningFromRulePrefixed ==
  chk.pc = "done"
    => \A k \in 1..Len(chk.warnings) :
         \E p \in FiringPairs :
           /\ Rank(p) = k
           /\ DOMAIN chk.warnings[k] = {"severity", "description", "source"}
           /\ chk.warnings[k].source = "DRUG_DB"
           /\ chk.warnings[k].severity = INTERACTION_DATABASE[p[2]].severity
           /\ chk.warnings[k].description =
                "[DATABASE FLAG] " \o INTERACTION_DATABASE[p[2]].description

\* C7 as stated: every emitted warning has source DRUG_DB and the severity
\* and description of the rule that fired, character for character.
C7_WarningFromRuleVerbatim ==
  chk.pc = "done"
    => \A k \in 1..Len(chk.warnings) :
         \E p \in FiringPairs :
           /\ Rank(p) = k
           /\ chk.warnings[k].source = "DRUG_DB"
           /\ chk.warnings[k].severity = INTERACTION_DATABASE[p[2]].severity
           /\ chk.warnings[k].description = INTERACTION_DATABASE[p[2]].description

\* a Moderate rule fired (lisinopril + potassium)
C7_Witness ==
  /\ chk.pc = "done"
  /\ Len(chk.warnings) = 1
  /\ chk.warnings[1].severity = "Moderate"
  /\ chk.warnings[1].source = "DRUG_DB"

\* C8: one warning per firing (medication, rule) pair, none merged, in
\* order of medication position and then rule position.
C8_OnePerPairInOrder ==
  chk.pc = "done"
    => /\ Len(chk.warnings) = Cardinality(FiringPairs)
       /\ \A p \in FiringPairs :
            /\ Rank(p) \in 1..Len(chk.warnings)
            /\ chk.warnings[Rank(p)].severity
                 = INTERACTION_DATABASE[p[2]].severity
            /\ chk.warnings[Rank(p)].description
                 = DbWarning(INTERACTION_DATABASE[p[2]]).description

\* two medications fired the same rule: two equal entries
C8_Witness ==
  /\ chk.pc = "done"
  /\ Len(chk.currentMeds) = 2
  /\ Len(chk.warnings) = 2
  /\ chk.warnings[1] = chk.warnings[2]

\* one medication fired two rules, entries in table order
C8_WitnessTwoRules ==
  /\ chk.pc = "done"
  /\ Len(chk.currentMeds) = 1
  /\ Len(chk.warnings) = 2
  /\ chk.warnings[1] = DbWarning(INTERACTION_DATABASE[1])
  /\ chk.warnings[2] = DbWarning(INTERACTION_DATABASE[2])

\* no rule matches in the sense of the specification
NoRuleMatches ==
  \A m \in 1..Len(chk.currentMeds), r \in RuleIds :
    ~OneTokenEach(INTERACTION_DATABASE[r], ChkCurrent(m), ChkProposed)

\* C9: the checker returns the empty list whenever no rule matches.
C9_EmptyWhenNoMatch ==
  (chk.pc = "done" /\ NoRuleMatches) => chk.warnings = << >>

\* the two edge cases C9 names: no medication, or an empty proposed name
C9_EmptyInputs ==
  (chk.pc = "done" /\ (chk.currentMeds = << >> \/ chk.proposedMedName = ""))
    => chk.warnings = << >>

\* every entry is High and comes from the rule table
AllHighFromDb ==
  \A k \in 1..Len(chk.warnings) :
    chk.warnings[k].severity = "High" /\ chk.warnings[k].source = "DRUG_DB"

-----------------------------------------------------------------------------
(* Claims on the sample scenario, value ranges and the audit log           *)

\* the submission of the sample patient was answered with Sildenafil as the
\* primary plan, rated Medium with score 40
SampleWithSildenafil ==
  /\ call.pc = "returned"
  /\ call.data.currentMedications = SAMPLE_PATIENT.currentMedications
  /\ call.resp.body.treatmentPlan.medication = "Sildenafil"
  /\ call.resp.body.riskLevel = "Medium"
  /\ call.resp.body.riskScore = 40

\* C11: for the sample patient (Lisinopril, Metformin, Nitroglycerin) and an
\* AI plan proposing Sildenafil rated Medium/40, the analysis shown in review
\* has riskLevel High and riskScore at least 90, its first warning is the
\* High nitrate/PDE5 warning with source DRUG_DB, and the AI's own warnings
\* follow it.
C11_SampleScenario ==
  SampleWithSildenafil
    => /\ analysis.riskLevel = "High"
       /\ analysis.riskScore >= 90
       /\ Len(analysis.warnings) = 1 + Len(call.resp.body.warnings)
       /\ analysis.warnings[1].severity = "High"
       /\ analysis.warnings[1].source = "DRUG_DB"
       /\ includes(analysis.warnings[1].description,
                   "PDE5 inhibitors (Sildenafil) and Nitrates")
       /\ \A i \in 1..Len(call.resp.body.warnings) :
            /\ analysis.warnings[i + 1].severity
                 = call.resp.body.warnings[i].severity
            /\ analysis.warnings[i + 1].description
                 = call.resp.body.warnings[i].description
            /\ analysis.warnings[i + 1].source = "AI_MODEL"

\* the sample scenario in review, the AI having sent one warning of its own
C11_Witness ==
  /\ step = "review"
  /\ SampleWithSildenafil
  /\ Len(call.resp.body.warnings) = 1
  /\ Len(analysis.warnings) = 2
  /\ analysis.riskScore = 90

InRange(n) == n >= 0 /\ n <= 100

\* C12: in every state that holds an analysis or a plan, the riskScore of
\* the analysis and the confidenceScore of the primary plan, of every
\* alternative, of the editable plan and of the final plan lie in [0, 100],
\* after any sequence of merge, alternative selection, field edits and
\* approval; a response with a score out of range never gets that far.
C12_ScoresInRange ==
  /\ analysis # NULL
       => /\ InRange(analysis.riskScore)
          /\ InRange(analysis.treatmentPlan.confidenceScore)
          /\ \A i \in 1..Len(analysis.alternatives) :
               InRange(analysis.alternatives[i].confidenceScore)
  /\ dash # NoDash => InRange(dash.editablePlan.confidenceScore)
  /\ finalPlan # NULL => InRange(finalPlan.confidenceScore)
  /\ (analysis # NULL \/ dash # NoDash \/ finalPlan # NULL)
       => /\ call.pc = "returned"
          /\ InRange(call.resp.body.riskScore)
          /\ InRange(call.resp.body.treatmentPlan.confidenceScore)

\* an alternative was selected, edited and approved, under an analysis whose
\* scores sit on the two ends of the range
C12_Witness ==
  /\ step = "summary"
  /\ analysis.riskScore = 100
  /\ analysis.treatmentPlan.confidenceScore = 0
  /\ finalPlan.confidenceScore = Alternative.confidenceScore
  /\ finalPlan.dosage \in EditedDosages
  /\ finalPlan.medication = Alternative.medication

IsPrefix(a, b) == Len(a) <= Len(b) /\ SubSeq(b, 1, Len(a)) = a

\* the step is one of handleRejectPlan or handleRestart
EndsSession == lastHandler' \in {"handleRejectPlan", "handleRestart"}

FieldLabel(f) ==
  CASE f = "medication" -> "Medication"
    [] f = "dosage" -> "Dosage"
    [] f = "duration" -> "Duration"

ComparedFields == {"medication", "dosage", "duration"}

\* the entry names field f as changed from old to new, or does not name it
NamesChange(details, f, old, new) ==
  IF old # new
    THEN includes(details, FieldLabel(f) \o ": " \o old \o " -> " \o new)
    ELSE ~includes(details, FieldLabel(f) \o ": ")

\* C14: handleApprovePlan appends exactly one entry: PLAN_MODIFIED iff the
\* finalized plan differs from the AI's primary plan in medication, dosage
\* or duration, its details then naming exactly the changed fields with old
\* and new value; PLAN_APPROVED otherwise, whatever the rationale.
C14_ApproveLogsOneEntry ==
  [][(step = "review" /\ step' = "summary")
       => /\ Len(auditLogs') = Len(auditLogs) + 1
          /\ IsPrefix(auditLogs, auditLogs')
          /\ LET entry == auditLogs'[Len(auditLogs')]
                 original == analysis.treatmentPlan
                 differs == \E f \in ComparedFields :
                              finalPlan'[f] # original[f]
             IN  /\ entry.action = IF differs THEN "PLAN_MODIFIED"
                                              ELSE "PLAN_APPROVED"
                 /\ differs => \A f \in ComparedFields :
                                 NamesChange(entry.details, f, original[f],
                                             finalPlan'[f])]_vars

\* approved with dosage, duration and rationale edited, medication kept
C14_Witness ==
  /\ step = "summary"
  /\ auditLogs[Len(auditLogs)].action = "PLAN_MODIFIED"
  /\ finalPlan.medication = analysis.treatmentPlan.medication
  /\ finalPlan.dosage # analysis.treatmentPlan.dosage
  /\ finalPlan.duration # analysis.treatmentPlan.duration
  /\ finalPlan.rationale # analysis.treatmentPlan.rationale

\* approved with only the rationale edited: logged as PLAN_APPROVED
C14_WitnessRationaleOnly ==
  /\ step = "summary"
  /\ auditLogs[Len(auditLogs)].action = "PLAN_APPROVED"
  /\ finalPlan.rationale # analysis.treatmentPlan.rationale

FreshSession ==
  /\ step = "intake"
  /\ isLoading = FALSE
  /\ error = NULL_STRING
  /\ patientData = NULL
  /\ analysis = NULL
  /\ finalPlan = NULL
  /\ auditLogs = << >>
  /\ dash = NoDash

\* C16: after handleRestart, called from the summary or by handleRejectPlan
\* from the review, the step is intake, the patient record, the analysis and
\* the final plan are null and the audit log is empty: the next session
\* starts from the state of a fresh one and shows nothing of the previous
\* session.
C16_RestartResets ==
  lastHandler \in {"handleRestart", "handleRejectPlan"} => FreshSession

\* the state right after a restart from the summary
C16_Witness ==
  /\ lastHandler = "handleRestart"
  /\ step = "intake"
  /\ auditLogs = << >>
  /\ finalPlan = NULL

-----------------------------------------------------------------------------
(* Claims on failures                                                      *)

\* the submit button of the intake form can be pressed
CanSubmit ==
  ENABLED (\E data \in FormData, id \in RandomIds, now \in Clock :
             HandleIntakeSubmit(data, id, now))

\* C17: after a failed analysis the step is still intake, the analysis is
\* null, the error message is set, isLoading is false and the clinician can
\* submit again.
C17_FailureStaysAtIntake ==
  lastHandler = "analysisThrew"
    => /\ step = "intake"
       /\ analysis = NULL
       /\ error # NULL_STRING
       /\ Len(error) > 0
       /\ isLoading = FALSE
       /\ CountAction(auditLogs, "INTAKE_SUBMITTED") < MaxAttempts
            => CanSubmit

\* the first attempt of a session has failed
C17_Witness ==
  /\ lastHandler = "analysisThrew"
  /\ CountAction(auditLogs, "INTAKE_SUBMITTED") = 1
  /\ error = "Analysis failed. Please try again."
  /\ step = "intake"

PresentFields(b) ==
  {"riskLevel", "riskScore", "summary", "warnings", "contraindications",
   "treatmentPlan", "alternatives", "lifestyleRecommendations"}
    \subseteq DOMAIN b

\* a body with every required field, both scores within 0..100, a known
\* riskLevel and known severities
WellFormed(b) ==
  /\ PresentFields(b)
  /\ b.riskLevel \in {"Low", "Medium", "High"}
  /\ InRange(b.riskScore)
  /\ InRange(b.treatmentPlan.confidenceScore)
  /\ \A i \in 1..Len(b.alternatives) : InRange(b.alternatives[i].confidenceScore)
  /\ \A i \in 1..Len(b.warnings) :
       b.warnings[i].severity \in {"High", "Moderate", "Low"}

\* the response is empty, is not JSON, or fails the schema
Malformed(resp) ==
  \/ resp.kind \in {"empty", "not_json"}
  \/ resp.kind = "json" /\ ~WellFormed(resp.body)

\* C18: when the response text is empty, is not JSON, or fails the schema
\* (missing field, riskScore or confidenceScore outside 0..100, unknown
\* riskLevel or severity), analyzePatient fails and returns no analysis:
\* only a fully valid analysis reaches the merge step and the review.
C18_MalformedResponseFails ==
  /\ (call.pc \in {"returned", "threw"} /\ Malformed(call.resp))
       => /\ call.pc = "threw"
          /\ analysis = NULL
          /\ step = "intake"
          /\ error # NULL_STRING
  /\ analysis # NULL
       => /\ call.pc = "returned"
          /\ ~Malformed(call.resp)
          /\ WellFormed(call.result)
          /\ WellFormed(analysis)

\* a response whose riskScore is 101 has been turned down
C18_Witness ==
  /\ call.pc = "threw"
  /\ call.resp.kind = "json"
  /\ PresentFields(call.resp.body)
  /\ call.resp.body.riskScore > 100
  /\ analysis = NULL

\* C19: each submission issues exactly one call to the model service; when
\* it fails, one error is shown and no call is made or in flight until the
\* clinician submits again.
C19_OneCallPerSubmission ==
  /\ requests = CountAction(auditLogs, "INTAKE_SUBMITTED")
  /\ (call.pc = "awaiting") <=> isLoading
  /\ lastHandler = "analysisThrew"
       => /\ call.pc = "threw"
          /\ ~isLoading
          /\ error = "Analysis failed. Please try again."

\* the second submission of a session is in flight after a failed first
C19_Witness ==
  /\ call.pc = "awaiting"
  /\ requests = 2
  /\ CountAction(auditLogs, "INTAKE_SUBMITTED") = 2
  /\ Len(auditLogs) = 2

ChatFallback ==
  [role |-> "model", text |-> "Error communicating with MediGuard AI."]

HandoutFallback == "Failed to generate handout. Please try again."

\* a step in which a chat request of the dashboard fails
ChatFailureStep ==
  /\ dash # NoDash /\ dash' # NoDash
  /\ dash'.chatPending < dash.chatPending
  /\ dash'.messages = Append(dash.messages, ChatFallback)

\* a step in which a handout request of the dashboard fails
HandoutFailureStep ==
  /\ dash # NoDash /\ dash' # NoDash
  /\ dash'.handoutPending < dash.handoutPending
  /\ dash'.handoutContent = HandoutFallback

\* C20: a failed chat message or a failed handout generation in review
\* leaves the analysis, the editable plan, the step and the audit log as
\* they were; its only effect is the fallback message in the chat list or
\* in the handout content, and the loading flag of that call is false
\* afterwards.
C20_AssistFailureIsLocal ==
  [][/\ (ChatFailureStep \/ HandoutFailureStep)
          => /\ UNCHANGED <<step, isLoading, error, patientData, analysis,
                            finalPlan, auditLogs>>
             /\ step = "review"
             /\ dash'.editablePlan = dash.editablePlan
     /\ ChatFailureStep
          => /\ dash'.isChatLoading = FALSE
             /\ dash' = [dash EXCEPT !.messages = dash'.messages,
                                     !.isChatLoading = FALSE,
                                     !.chatPending = dash'.chatPending]
     /\ HandoutFailureStep
          => /\ dash'.isGeneratingHandout = FALSE
             /\ dash' = [dash EXCEPT !.handoutContent = HandoutFallback,
                                     !.isGeneratingHandout = FALSE,
                                     !.handoutPending = dash'.handoutPending]
    ]_vars

\* in review, with an alternative selected, a chat message and the handout
\* have both failed
C20_Witness ==
  /\ step = "review"
  /\ dash # NoDash
  /\ dash.editablePlan = Alternative
  /\ dash.messages[Len(dash.messages)] = ChatFallback
  /\ dash.isChatLoading = FALSE
  /\ dash.handoutContent = HandoutFallback
  /\ dash.isGeneratingHandout = FALSE
  /\ Len(auditLogs) = 2

-----------------------------------------------------------------------------
(* Claims on the dashboard and on the shape of a session                   *)

\* a step in which the handout button is pressed with the modal closed
HandoutRequestStep ==
  /\ dash # NoDash /\ dash' # NoDash
  /\ ~dash.showHandout
  /\ dash'.showHandout

\* C21: after a handout generation has failed, requesting the handout again
\* in the same review issues a new generation call: the failure message is
\* not kept as the handout.
C21_HandoutRetry ==
  [][(HandoutRequestStep /\ dash.handoutContent = HandoutFallback)
       => /\ dash'.handoutPending = dash.handoutPending + 1
          /\ dash'.isGeneratingHandout]_vars

\* the analysis is the result of the call with the DB warnings put in front
\* once and the level and score raised as the merge step raises them
MergedOnce(a, c) ==
  /\ a.warnings = c.dbWarnings \o c.result.warnings
  /\ a.riskLevel = IF HasHighEntry(c.dbWarnings) THEN "High"
                                                 ELSE c.result.riskLevel
  /\ a.riskScore = IF HasHighEntry(c.dbWarnings)
                     THEN FlooredAt90(c.result.riskScore)
                     ELSE c.result.riskScore
  /\ a.treatmentPlan = c.result.treatmentPlan
  /\ a.alternatives = c.result.alternatives

\* C22: one successful intake yields exactly one analysis, merged exactly
\* once before the step becomes review; from then on no operation (field
\* edits, selecting an alternative, chat, handout, approve) changes the
\* analysis until reject or restart discards it.
C22_AnalysisFixedInReview ==
  [][/\ (analysis = NULL /\ analysis' # NULL)
          => /\ step = "intake" /\ step' = "review"
             /\ CountAction(auditLogs', "ANALYSIS_GENERATED") = 1
             /\ MergedOnce(analysis', call')
     /\ (analysis # NULL /\ analysis' # NULL) => analysis' = analysis
     /\ (analysis # NULL /\ analysis' = NULL) => EndsSession
    ]_vars

\* a plan approved with its medication edited, under the analysis as merged
C22_Witness ==
  /\ step = "summary"
  /\ finalPlan.medication \in EditedMedications
  /\ analysis.treatmentPlan.medication = "Sildenafil"
  /\ MergedOnce(analysis, call)
  /\ Len(call.dbWarnings) = 1

\* a plan approved after a chat reply and a handout, under the analysis as
\* merged
C22_WitnessAssistant ==
  /\ step = "review"
  /\ dash # NoDash
  /\ Len(dash.messages) = 3
  /\ dash.handoutContent = "Take one tablet as directed."
  /\ MergedOnce(analysis, call)

\* the four transitions of the session, each with the handler that makes it
StepTransition ==
  \/ /\ step = "intake" /\ step' = "review"
     /\ lastHandler' = "analysisReturned"
  \/ /\ step = "review" /\ step' = "summary"
     /\ lastHandler' = "handleApprovePlan"
  \/ /\ step = "review" /\ step' = "intake"
     /\ lastHandler' = "handleRejectPlan"
  \/ /\ step = "summary" /\ step' = "intake"
     /\ lastHandler' = "handleRestart"

\* C23: step is always one of intake, review, summary and starts at intake;
\* it changes only by intake -> review (successful analysis), review ->
\* summary (approve), review -> intake (reject) and summary -> intake
\* (restart); a failed analysis leaves it at intake, and summary is entered
\* from review only.
C23_StepMachine ==
  /\ step = "intake"
  /\ [][/\ step' \in {"intake", "review", "summary"}
        /\ step' # step => StepTransition
        /\ step' = "summary" => step \in {"review", "summary"}
        /\ (call.pc = "awaiting" /\ call'.pc = "threw")
             => (step = "intake" /\ step' = "intake")
       ]_vars

\* a session whose first analysis failed and whose second one was reviewed
\* and approved
C23_Witness ==
  /\ step = "summary"
  /\ lastHandler = "handleApprovePlan"
  /\ requests = 2
  /\ call.pc = "returned"

\* the analysis holds the DRUG_DB warning of rule r
ShowsDbWarning(a, r) ==
  \E i \in 1..Len(a.warnings) :
    /\ a.warnings[i].source = "DRUG_DB"
    /\ a.warnings[i].severity = INTERACTION_DATABASE[r].severity
    /\ includes(a.warnings[i].description, INTERACTION_DATABASE[r].description)

\* C24: in every session that reaches the summary, if the finalized plan's
\* medication and one of the patient's current medications fire a
\* High-severity rule, the analysis shown in review had riskLevel High and
\* held that DRUG_DB warning, also when the clinician selected an
\* alternative or edited the medication name.
C24_CheckCoversFinalPlan ==
  step = "summary"
    => \A m \in 1..Len(patientData.currentMedications), r \in RuleIds :
         (/\ INTERACTION_DATABASE[r].severity = "High"
          /\ OneTokenEach(INTERACTION_DATABASE[r],
                          LowerCaseOf(patientData.currentMedications[m].name),
                          LowerCaseOf(finalPlan.medication)))
           => /\ analysis.riskLevel = "High"
              /\ ShowsDbWarning(analysis, r)

\* C25: the risk level written into the details of the ANALYSIS_GENERATED
\* entry is the riskLevel of the analysis handed to review, the level after
\* merge and escalation, for every AI level and every list of DB warnings.
C25_LoggedLevelIsReviewedLevel ==
  analysis # NULL
    => \A i \in 1..Len(auditLogs) :
         auditLogs[i].action = "ANALYSIS_GENERATED"
           => includes(auditLogs[i].details, "Risk: " \o analysis.riskLevel)

\* C26: after the clinician enters edit mode, changes medication, dosage,
\* duration or rationale and presses Cancel, the editable plan is the plan
\* as it was when edit mode was entered, so that an approval that follows
\* logs what it would have logged without the edit.
C26_CancelDiscardsEdits ==
  [][CancelEditing => dash'.editablePlan = dash.planAtEdit]_vars

\* C27: chat requests are serialized: no second request starts while one is
\* in flight, by the send button or by the Enter key, so isChatLoading is
\* true exactly while a request is outstanding and every user message is
\* followed by its own reply (or fallback) before the next user message.
C27_ChatSerialized ==
  dash # NoDash
    => /\ dash.chatPending <= 1
       /\ dash.isChatLoading <=> dash.chatPending > 0
       /\ \A i \in 1..(Len(dash.messages) - 1) :
            dash.messages[i].role = "user"
              => dash.messages[i + 1].role = "model"

\* C28: in every reachable state, step = review implies patientData and
\* analysis are set; step = summary implies patientData, analysis and
\* finalPlan are set; step = intake implies analysis and finalPlan are
\* null; and error is set only when step = intake.
C28_StepDataConsistent ==
  /\ step = "review" => (patientData # NULL /\ analysis # NULL)
  /\ step = "summary"
       => (patientData # NULL /\ analysis # NULL /\ finalPlan # NULL)
  /\ step = "intake" => (analysis = NULL /\ finalPlan = NULL)
  /\ error # NULL_STRING => step = "intake"

\* in review after a first attempt that failed: the error has been cleared
C28_Witness ==
  /\ step = "review"
  /\ CountAction(auditLogs, "INTAKE_SUBMITTED") = 2
  /\ error = NULL_STRING
  /\ patientData # NULL
  /\ analysis # NULL
  /\ finalPlan = NULL

Resolved ==
  /\ isLoading = FALSE
  /\ \/ step = "review" /\ analysis # NULL
     \/ step = "intake" /\ analysis = NULL /\ error # NULL_STRING

\* C30: at most one analysis request is in flight at any time, submission
\* being disabled while isLoading; and, the model call returning or failing
\* in the end, every submitted intake resolves with isLoading = false and
\* either step = review with the merged analysis set or step = intake with
\* an error set.
C30_SubmissionProgress ==
  /\ [][requests' > requests
          => (~isLoading /\ call.pc # "awaiting" /\ requests' = requests + 1)
       ]_vars
  /\ [](call.pc = "awaiting" => isLoading)
  /\ (call.pc = "awaiting") ~> (call.pc # "awaiting" /\ Resolved)

\* the second submission of a session has resolved into a review
C30_Witness ==
  /\ call.pc = "returned"
  /\ requests = 2
  /\ Resolved
  /\ step = "review"
  /\ MergedOnce(analysis, call)

====
